---- MODULE Spec2Model ----
(***************************************************************************)
(* Order lifecycle of the HOE backend: the Razorpay webhook                *)
(* (routes/webHook.js), the order routes (routes/orders.js: creation,      *)
(* payment, cancellation, shipment, tracking), the admin's product edits   *)
(* (routes/admin.js), the shipment provider's session                      *)
(* (services/shipyariServices.js) and the inventory fields of the Product  *)
(* model, as a state machine over the shared document store.               *)
(* Every request runs in a slot; a step of a request is the code between   *)
(* two awaits, so requests interleave exactly at their storage and         *)
(* provider calls.  The clock stands still except under SpecClock.         *)
(***************************************************************************)
EXTENDS Integers, Sequences, FiniteSets, TLC

\* ------------------------------------------------------------------ bounds
MaxStock == 2
MaxOps == 2
MaxTime == 2

\* --------------------------------------------------------------- universes
Slots == {"r1", "r2"}
SlotNo(r) == IF r = "r1" THEN 1 ELSE 2
Products == {"p1", "p2"}
\* The ids the store has to hand out: o1 is the order placed before the
\* first step, the others are free for orders created later.
AllOrderIds == {"o1", "o2"}
NoOrder == "none"
NoSig == -1
GatewayIds == {"rzp1", "rzpX"}
\* A webhook body whose payload has no payment entity.
NoEntity == "none"
Requesters == {"owner", "admin", "other"}

OrderStatuses ==
  {"pending", "confirmed", "paid", "processing", "shipped", "in_transit",
   "delivered", "cancelled"}

WebhookEvents ==
  {"payment.captured", "payment.failed", "payment.authorized", "order.paid"}

\* ------------------------------------------------------------------ prices
\* The catalogue: price and gstRate of each product.
ProductPrice(p) == IF p = "p1" THEN 499 ELSE 250

ProductGstRate(p) == IF p = "p1" THEN 12 ELSE 0

\* Math.round(n / d) for n >= 0, d > 0
Round(n, d) == (2 * n + d) \div (2 * d)

\* Number(i.quantity || 1): quantity 0 stands for a missing quantity.
Quantity(q) == IF q = 0 THEN 1 ELSE q

\* The carts a checkout request may carry.
CheckoutCart ==
  << [product |-> "p1", quantity |-> 1], [product |-> "p2", quantity |-> 2] >>

Carts == {CheckoutCart, << [product |-> "p2", quantity |-> 0] >>}

\* The product documents as the catalogue lists them.
\* constructor(): this.token = null; this.tokenExpiry = null.  signIns counts
\* the calls of /seller/signIn.
NewSession == [token |-> 0, tokenExpiry |-> 0, signIns |-> 0]

NewProduct(p, stock) ==
  [stock |-> stock, totalSales |-> 0,
   status |-> IF stock = 0 THEN "out_of_stock" ELSE "active",
   price |-> ProductPrice(p), deleted |-> FALSE]

\* normItems: the snapshot of product, price and quantity of each line, from
\* the products Product.find returned.
NormItems(cart, productMap) ==
  [i \in DOMAIN cart |->
     [product |-> cart[i].product, price |-> productMap[cart[i].product].price,
      quantity |-> Quantity(cart[i].quantity)]]

RECURSIVE ItemsPrice(_)
\* normItems.reduce((sum, it) => sum + it.price * it.quantity, 0)
ItemsPrice(items) ==
  IF items = << >>
  THEN 0
  ELSE LET n == Len(items)
       IN ItemsPrice(SubSeq(items, 1, n - 1))
            + items[n].price * items[n].quantity

RECURSIVE GstOf(_)
\* taxPrice += Math.round(price * quantity * gstRate / 100) for each item
\* whose product has a gstRate.
GstOf(items) ==
  IF items = << >>
  THEN 0
  ELSE LET n == Len(items)
           rate == ProductGstRate(items[n].product)
       IN GstOf(SubSeq(items, 1, n - 1))
            + (IF rate # 0
               THEN Round(items[n].price * items[n].quantity * rate, 100)
               ELSE 0)

TotalPriceWithoutTax(itemsPrice, shippingPrice, taxPrice) ==
  itemsPrice + shippingPrice

TotalPrice(itemsPrice, shippingPrice, taxPrice) ==
  itemsPrice + shippingPrice + taxPrice

\* The line items the checkout snapshot holds for the order.
OrderItems ==
  NormItems(CheckoutCart, [p \in Products |-> NewProduct(p, MaxStock)])

\* --------------------------------------------------------------- signatures
WebhookSecret == 3
KeySecret == 5
SigSpace == 1009

EventCode(event) ==
  CASE event = "payment.captured" -> 1
    [] event = "payment.failed" -> 2
    [] event = "payment.authorized" -> 3
    [] OTHER -> 4

GwCode(gw) ==
  CASE gw = "rzp1" -> 1
    [] gw = "rzpX" -> 2
    [] OTHER -> 0

\* The bytes the gateway sends: the same JSON value may arrive compact or
\* with other spacing.
RawForms == {"compact", "spaced"}

RawBody(event, gw, form) ==
  (IF form = "compact" THEN 0 ELSE 100) + EventCode(event) * 10 + GwCode(gw)

\* express.json(): the parsed value no longer knows the spacing.
ParseJson(raw) == raw % 100

\* JSON.stringify(req.body): the compact text of the parsed value.
StringifyJson(value) == value

BodyOf(event, gw, form) == StringifyJson(ParseJson(RawBody(event, gw, form)))

\* crypto.createHmac('sha256', key).update(msg).digest('hex')
Hmac(key, msg) == (key * 37 + msg * 17 + 11) % SigSpace

\* The signature headers a caller may send: none, the gateway's signature of
\* the bytes it sent, a signature of the re-serialised body, and one made
\* with another key.
SigChoices(event, gw, form) ==
  {NoSig,
   Hmac(WebhookSecret, RawBody(event, gw, form)),
   Hmac(WebhookSecret, BodyOf(event, gw, form)),
   Hmac(KeySecret, BodyOf(event, gw, form))}

SignatureMismatchIgnored(signature, body) == FALSE

SignatureMismatch(signature, body) == signature # Hmac(WebhookSecret, body)

\* ------------------------------------------------------------------- state
VARIABLES orders, products, req, nOps, stockLog, shipCalls, now, session

vars == <<orders, products, req, nOps, stockLog, shipCalls, now, session>>

\* The orders in the store.
OrderIds == DOMAIN orders

IdleReq ==
  [kind |-> "none", pc |-> "idle", who |-> "none", sig |-> NoSig,
   form |-> "none", event |-> "none", gw |-> "none", order |-> NoOrder, idx |-> 0,
   arg |-> "none", loaded |-> "none", provider |-> "none", doc |-> "none",
   ts |-> 0,
   resp |-> 0]

NewOrder ==
  [orderNumber |-> 1,
   status |-> "pending",
   user |-> "owner",
   items |-> OrderItems,
   itemsPrice |-> ItemsPrice(OrderItems),
   shippingPrice |-> 0,
   taxPrice |-> GstOf(OrderItems),
   totalPrice |-> TotalPrice(ItemsPrice(OrderItems), 0, GstOf(OrderItems)),
   paidAt |-> FALSE, shippedAt |-> FALSE, deliveredAt |-> FALSE,
   cancelledAt |-> FALSE, cancellationReason |-> "none",
   razorpayDetails |->
     [razorpayOrderId |-> "rzp1", razorpayPaymentId |-> "none",
      razorpaySignature |-> "none", paymentMethod |-> "none",
      paymentStatus |-> "pending"],
   shipmentDetails |->
     [shipmentStatus |-> "none", shipyaariOrderId |-> "none",
      awbNumber |-> "none", courierPartner |-> "none",
      trackingUrl |-> "none", shipmentError |-> "none",
      isCancelled |-> "none", lastTrackingUpdate |-> "none"],
   statusHistory |-> << >>]

Init ==
  /\ orders = [o \in {"o1"} |-> NewOrder]
  /\ \E s \in [Products -> 0..MaxStock] :
       products = [p \in Products |-> NewProduct(p, s[p])]
  /\ req = [r \in Slots |-> IdleReq]
  /\ nOps = 0
  /\ stockLog = [p \in Products |-> [ok |-> 0, rejected |-> 0]]
  /\ shipCalls = [o \in AllOrderIds |-> 0]
  /\ now = 0
  /\ session = NewSession

\* ----------------------------------------------------------------- helpers
Vacant(r) == req[r].pc \in {"idle", "done"}

\* A new request takes the first vacant slot: which slot serves it is
\* immaterial.
Free(r) ==
  /\ Vacant(r)
  /\ nOps < MaxOps
  /\ \A q \in Slots : Vacant(q) => SlotNo(r) <= SlotNo(q)

\* What is left of a request once it has been answered.
Answered(kind, code) == [IdleReq EXCEPT !.kind = kind, !.pc = "done", !.resp = code]

Reject(r, kind, code) == req' = [req EXCEPT ![r] = Answered(kind, code)]

At(r, kind, pc) == req[r].kind = kind /\ req[r].pc = pc

Respond(r, code) == req' = [req EXCEPT ![r] = Answered(req[r].kind, code)]

\* The writes whose update document carries `timestamp: new Date()`.
TimestampedWrites ==
  {"markPaid", "setProcessing", "setShipped", "setFailed", "markCancelled",
   "markAuthorized"}

\* new Date(), read when the update document of the write at pc is built:
\* at the end of the step before the write is sent to the store.
DateNow(pc) == IF pc \in TimestampedWrites THEN now ELSE 0

Goto(r, pc) == req' = [req EXCEPT ![r].pc = pc, ![r].ts = DateNow(pc)]

\* Order.findOne({'razorpayDetails.razorpayOrderId': id})
FindByGatewayId(gw) ==
  IF \E o \in OrderIds : orders[o].razorpayDetails.razorpayOrderId = gw
  THEN CHOOSE o \in OrderIds : orders[o].razorpayDetails.razorpayOrderId = gw
  ELSE NoOrder

PushHistoryOverwriting(ord, status, by, ts) ==
  [ord EXCEPT !.statusHistory =
     << [status |-> status, timestamp |-> ts, updatedBy |-> by] >>]

\* $push: { statusHistory: { status, timestamp, updatedBy } }
PushHistory(ord, status, by, ts) ==
  [ord EXCEPT !.statusHistory =
     Append(@, [status |-> status, timestamp |-> ts, updatedBy |-> by])]

\* ------------------------------------------------------- webhook: the route
WebhookDeliver(r) ==
  /\ Free(r)
  /\ \E event \in WebhookEvents, gw \in GatewayIds \cup {NoEntity},
        form \in RawForms :
       \E sig \in SigChoices(event, gw, form) :
         req' = [req EXCEPT ![r] =
                   [IdleReq EXCEPT !.kind = "webhook", !.pc = "route",
                                   !.sig = sig, !.form = form,
                                   !.event = event, !.gw = gw]]
  /\ nOps' = nOps + 1
  /\ UNCHANGED <<session, now, orders, products, stockLog, shipCalls>>

\* The handlers are passed payload.payment.entity only; reading it from a
\* payload that has no payment throws into the route's catch, which answers
\* 500.
Dispatch(r) ==
  req' = [req EXCEPT ![r] =
            [IdleReq EXCEPT !.kind = "webhook", !.pc = "find",
                            !.event = req[r].event, !.gw = req[r].gw]]

WebhookRoute(r) ==
  /\ At(r, "webhook", "route")
  /\ LET body == BodyOf(req[r].event, req[r].gw, req[r].form)
     IN IF req[r].sig = NoSig
        THEN Respond(r, 400)
        ELSE IF SignatureMismatch(req[r].sig, body)
        THEN Respond(r, 400)
        ELSE IF req[r].event \in {"payment.captured", "payment.failed",
                                  "payment.authorized"}
        THEN IF req[r].gw = NoEntity
             THEN Respond(r, 500)
             ELSE Dispatch(r)
        ELSE Respond(r, 200)
  /\ UNCHANGED <<session, now, orders, products, nOps, stockLog, shipCalls>>

\* ------------------------------------------- webhook: handlePaymentSuccess
CapturedFind(r) ==
  /\ At(r, "webhook", "find")
  /\ req[r].event = "payment.captured"
  /\ LET o == FindByGatewayId(req[r].gw)
     IN IF o = NoOrder
        THEN Respond(r, 200)
        ELSE req' = [req EXCEPT ![r].order = o, ![r].pc = "markPaid",
                                ![r].ts = DateNow("markPaid")]
  /\ UNCHANGED <<session, now, orders, products, nOps, stockLog, shipCalls>>

MarkPaid(ord, ts) ==
  PushHistory(
    [ord EXCEPT !.razorpayDetails.razorpayPaymentId = "pay1",
                !.razorpayDetails.paymentStatus = "captured",
                !.razorpayDetails.paymentMethod = "upi",
                !.status = "paid",
                !.paidAt = TRUE],
    "paid", "razorpay_webhook", ts)

NextItem(r, i) ==
  IF i < Len(orders[req[r].order].items)
  THEN req' = [req EXCEPT ![r].idx = i + 1, ![r].pc = "stock",
                          ![r].ts = DateNow("stock")]
  ELSE req' = [req EXCEPT ![r].idx = 0, ![r].pc = "setProcessing",
                          ![r].ts = DateNow("setProcessing")]

SkipItemAbort(r) == Respond(r, 200)

\* if (!stockUpdate) { ...; continue; }
SkipItem(r) == NextItem(r, req[r].idx)

CapturedMarkPaid(r) ==
  /\ At(r, "webhook", "markPaid")
  /\ orders' = [orders EXCEPT ![req[r].order] = MarkPaid(@, req[r].ts)]
  /\ NextItem(r, 0)
  /\ UNCHANGED <<session, now, products, nOps, stockLog, shipCalls>>

StockFilterUnguarded(prod, quantity) == TRUE

\* { _id: item.product, stock: { $gte: item.quantity } }
StockFilter(prod, quantity) == ~prod.deleted /\ prod.stock >= quantity

DecrementStock(prod, quantity) ==
  [prod EXCEPT !.stock = @ - quantity, !.totalSales = @ + quantity]

CapturedDecrement(r) ==
  /\ At(r, "webhook", "stock")
  /\ LET item == orders[req[r].order].items[req[r].idx]
         p == item.product
         updated == DecrementStock(products[p], item.quantity)
     IN IF StockFilter(products[p], item.quantity)
        THEN /\ products' = [products EXCEPT ![p] = updated]
             /\ stockLog' = [stockLog EXCEPT ![p].ok = @ + 1]
             /\ IF updated.stock = 0 /\ updated.status # "out_of_stock"
                THEN Goto(r, "flip")
                ELSE NextItem(r, req[r].idx)
        ELSE /\ stockLog' = [stockLog EXCEPT ![p].rejected = @ + 1]
             /\ SkipItem(r)
             /\ UNCHANGED products
  /\ UNCHANGED <<session, now, orders, nOps, shipCalls>>

CapturedOutOfStock(r) ==
  /\ At(r, "webhook", "flip")
  /\ LET p == orders[req[r].order].items[req[r].idx].product
     IN products' = IF products[p].deleted
                    THEN products
                    ELSE [products EXCEPT ![p].status = "out_of_stock"]
  /\ NextItem(r, req[r].idx)
  /\ UNCHANGED <<session, now, orders, nOps, stockLog, shipCalls>>

\* ------------------------------------------------ webhook: processShipment
MarkProcessingHistoryOnly(ord, ts) ==
  PushHistory(ord, "processing", "system", ts)

MarkProcessing(ord, ts) ==
  PushHistory([ord EXCEPT !.status = "processing"], "processing", "system", ts)

ShipmentSetProcessing(r) ==
  /\ At(r, "webhook", "setProcessing")
  /\ orders' = [orders EXCEPT ![req[r].order] = MarkProcessing(@, req[r].ts)]
  /\ Goto(r, "createShipment")
  /\ UNCHANGED <<session, now, products, nOps, stockLog, shipCalls>>

BuildShipyaariPayloadLive(order) ==
  [i \in DOMAIN order.items |->
     [qty |-> order.items[i].quantity,
      unitPrice |-> products[order.items[i].product].price,
      totalPrice |->
        products[order.items[i].product].price * order.items[i].quantity,
      invoiceValue |-> order.totalPrice]]

\* boxInfo: order.items.map(...), one box per line item, every value taken
\* from the order document.
BuildShipyaariPayload(order) ==
  [i \in DOMAIN order.items |->
     [qty |-> order.items[i].quantity,
      unitPrice |-> order.items[i].price,
      totalPrice |-> order.items[i].price * order.items[i].quantity,
      invoiceValue |-> order.totalPrice]]

\* shipyaariService.createShipment(order): sends the payload built from the
\* order the handler holds (its items and totalPrice are those of the
\* store), and returns a result or throws.
ShipmentCreate(r) ==
  /\ At(r, "webhook", "createShipment")
  /\ shipCalls' = [shipCalls EXCEPT ![req[r].order] = @ + 1]
  /\ \E outcome \in {"created", "threw"} :
       LET pc == IF outcome = "created" THEN "setShipped" ELSE "setFailed"
       IN req' = [req EXCEPT
                    ![r].provider = outcome, ![r].pc = pc,
                    ![r].ts = DateNow(pc),
                    ![r].doc = BuildShipyaariPayload(orders[req[r].order])]
  /\ UNCHANGED <<session, now, orders, products, nOps, stockLog>>

\* What createShipment returns when the provider accepted the order.
ShipmentResult ==
  [shipyaariOrderId |-> "sy1", awbNumber |-> "awb1",
   courierPartner |-> "courier1", trackingUrl |-> "label1"]

MarkShippedDetailsOnly(ord, shipmentResult, ts) ==
  PushHistory(
    [ord EXCEPT !.shipmentDetails.shipmentStatus = "processing",
                !.shipmentDetails.awbNumber = shipmentResult.awbNumber],
    "shipped", "shipyaari_integration", ts)

MarkShipped(ord, shipmentResult, ts) ==
  PushHistory(
    [ord EXCEPT !.shipmentDetails.shipmentStatus = "processing",
                !.shipmentDetails.shipyaariOrderId = shipmentResult.shipyaariOrderId,
                !.shipmentDetails.awbNumber = shipmentResult.awbNumber,
                !.shipmentDetails.courierPartner = shipmentResult.courierPartner,
                !.shipmentDetails.trackingUrl = shipmentResult.trackingUrl,
                !.status = "shipped",
                !.shippedAt = TRUE],
    "shipped", "shipyaari_integration", ts)

ShipmentSetShipped(r) ==
  /\ At(r, "webhook", "setShipped")
  /\ orders' = [orders EXCEPT ![req[r].order] = MarkShipped(@, ShipmentResult, req[r].ts)]
  /\ Respond(r, 200)
  /\ UNCHANGED <<session, now, products, nOps, stockLog, shipCalls>>

\* error.message of what createShipment throws.
ShipmentErrorMessage == "Failed to create shipment"

MarkShipmentFailedCancels(ord, message, ts) ==
  PushHistory(
    [ord EXCEPT !.shipmentDetails.shipmentStatus = "failed",
                !.shipmentDetails.shipmentError = message,
                !.status = "cancelled"],
    "cancelled", "system", ts)

MarkShipmentFailed(ord, message, ts) ==
  PushHistory(
    [ord EXCEPT !.shipmentDetails.shipmentStatus = "failed",
                !.shipmentDetails.shipmentError = message],
    "shipment_failed", "system", ts)

ShipmentSetFailed(r) ==
  /\ At(r, "webhook", "setFailed")
  /\ orders' = [orders EXCEPT ![req[r].order] = MarkShipmentFailed(@, ShipmentErrorMessage, req[r].ts)]
  /\ Respond(r, 200)
  /\ UNCHANGED <<session, now, products, nOps, stockLog, shipCalls>>

\* ------------------------------------------- webhook: handlePaymentFailure
FailedFind(r) ==
  /\ At(r, "webhook", "find")
  /\ req[r].event = "payment.failed"
  /\ LET o == FindByGatewayId(req[r].gw)
     IN IF o = NoOrder
        THEN Respond(r, 200)
        ELSE req' = [req EXCEPT ![r].order = o, ![r].pc = "markCancelled",
                                ![r].ts = DateNow("markCancelled")]
  /\ UNCHANGED <<session, now, orders, products, nOps, stockLog, shipCalls>>

MarkPaymentFailed(ord, ts) ==
  PushHistory(
    [ord EXCEPT !.razorpayDetails.paymentStatus = "failed",
                !.status = "cancelled",
                !.cancelledAt = TRUE,
                !.cancellationReason = "Payment failed"],
    "cancelled", "razorpay_webhook", ts)

FailedMarkCancelled(r) ==
  /\ At(r, "webhook", "markCancelled")
  /\ orders' = [orders EXCEPT ![req[r].order] = MarkPaymentFailed(@, req[r].ts)]
  /\ Respond(r, 200)
  /\ UNCHANGED <<session, now, products, nOps, stockLog, shipCalls>>

\* ---------------------------------------- webhook: handlePaymentAuthorized
AuthorizedFind(r) ==
  /\ At(r, "webhook", "find")
  /\ req[r].event = "payment.authorized"
  /\ LET o == FindByGatewayId(req[r].gw)
     IN IF o = NoOrder
        THEN Respond(r, 200)
        ELSE req' = [req EXCEPT ![r].order = o, ![r].pc = "markAuthorized",
                                ![r].ts = DateNow("markAuthorized")]
  /\ UNCHANGED <<session, now, orders, products, nOps, stockLog, shipCalls>>

MarkAuthorized(ord, ts) ==
  PushHistory(
    [ord EXCEPT !.razorpayDetails.razorpayPaymentId = "pay1",
                !.razorpayDetails.paymentStatus = "authorized",
                !.razorpayDetails.paymentMethod = "upi"],
    "payment_authorized", "razorpay_webhook", ts)

AuthorizedMark(r) ==
  /\ At(r, "webhook", "markAuthorized")
  /\ orders' = [orders EXCEPT ![req[r].order] = MarkAuthorized(@, req[r].ts)]
  /\ Respond(r, 200)
  /\ UNCHANGED <<session, now, products, nOps, stockLog, shipCalls>>

\* ------------------------------------------------------------ specification
WebhookStep(r) ==
  \/ WebhookDeliver(r)
  \/ WebhookRoute(r)
  \/ CapturedFind(r)
  \/ CapturedMarkPaid(r)
  \/ CapturedDecrement(r)
  \/ CapturedOutOfStock(r)
  \/ ShipmentSetProcessing(r)
  \/ ShipmentCreate(r)
  \/ ShipmentSetShipped(r)
  \/ ShipmentSetFailed(r)
  \/ FailedFind(r)
  \/ FailedMarkCancelled(r)
  \/ AuthorizedFind(r)
  \/ AuthorizedMark(r)

NextWebhook == \E r \in Slots : WebhookStep(r)

SpecWebhook == Init /\ [][NextWebhook]_vars

\* The server's clock, as new Date() reads it, moves on between any two steps.
Tick ==
  /\ now < MaxTime
  /\ now' = now + 1
  /\ UNCHANGED <<orders, products, req, nOps, stockLog, shipCalls, session>>

NextClock == NextWebhook \/ Tick

SpecClock == Init /\ [][NextClock]_vars

\* ------------------------------------------------- POST /payment/confirm
\* `${razorpay_order_id}|${razorpay_payment_id}`
ConfirmBody(gw) == 50 + GwCode(gw)

ConfirmSigChoices(gw) ==
  {NoSig, Hmac(KeySecret, ConfirmBody(gw)),
   (Hmac(KeySecret, ConfirmBody(gw)) + 1) % SigSpace}

ConfirmReceive(r) ==
  /\ Free(r)
  /\ \E who \in Requesters, gw \in GatewayIds :
       \E sig \in ConfirmSigChoices(gw) :
         LET fresh == [IdleReq EXCEPT !.kind = "confirm", !.who = who,
                                      !.sig = sig, !.gw = gw]
         IN IF sig # Hmac(KeySecret, ConfirmBody(gw))
            THEN Reject(r, fresh.kind, 400)
            ELSE req' = [req EXCEPT ![r] = [fresh EXCEPT !.pc = "update"]]
  /\ nOps' = nOps + 1
  /\ UNCHANGED <<session, now, orders, products, stockLog, shipCalls>>

\* { 'razorpayDetails.razorpayOrderId': id, user: req.user.sub }
FindForConfirm(gw, who) ==
  IF \E o \in OrderIds : /\ orders[o].razorpayDetails.razorpayOrderId = gw
                         /\ orders[o].user = who
  THEN CHOOSE o \in OrderIds : /\ orders[o].razorpayDetails.razorpayOrderId = gw
                               /\ orders[o].user = who
  ELSE NoOrder

MarkConfirmed(ord, sig) ==
  [ord EXCEPT !.razorpayDetails.razorpayPaymentId = "pay1",
              !.razorpayDetails.razorpaySignature = sig,
              !.razorpayDetails.paymentStatus = "captured",
              !.status = "paid",
              !.paidAt = TRUE]

ConfirmUpdate(r) ==
  /\ At(r, "confirm", "update")
  /\ LET o == FindForConfirm(req[r].gw, req[r].who)
     IN IF o = NoOrder
        THEN /\ Respond(r, 404)
             /\ UNCHANGED orders
        ELSE /\ orders' = [orders EXCEPT ![o] = MarkConfirmed(@, "signed")]
             /\ Respond(r, 200)
  /\ UNCHANGED <<session, now, products, nOps, stockLog, shipCalls>>

\* ---------------------------------------------------------- helpers: routes
IsOwnerOrAdmin(who, ord) == ord.user = who \/ who = "admin"

\* order.save() writes the paths the handler modified; assigning a field the
\* value it was loaded with leaves it unmodified.
SaveStatus(ord, loaded, status) ==
  IF status = loaded THEN ord ELSE [ord EXCEPT !.status = status]

\* ------------------------------------------------------- PATCH /:id/pay
PayLoad(r) ==
  /\ Free(r)
  /\ \E who \in Requesters, o \in OrderIds, gw \in GatewayIds :
       LET fresh == [IdleReq EXCEPT !.kind = "pay", !.who = who, !.gw = gw]
       IN IF ~IsOwnerOrAdmin(who, orders[o])
          THEN Reject(r, fresh.kind, 403)
          ELSE req' = [req EXCEPT ![r] =
                         [fresh EXCEPT !.order = o, !.pc = "save",
                                       !.loaded = orders[o].status]]
  /\ nOps' = nOps + 1
  /\ UNCHANGED <<session, now, orders, products, stockLog, shipCalls>>

MarkPaidByOwner(ord, loaded, gw) ==
  [SaveStatus(ord, loaded, "paid") EXCEPT
     !.razorpayDetails =
        [razorpayOrderId |-> gw, razorpayPaymentId |-> "pay1",
         razorpaySignature |-> "unverified", paymentMethod |-> "online",
         paymentStatus |-> "captured"],
     !.paidAt = TRUE]

PaySaveDeducting(r) ==
  /\ At(r, "pay", "save")
  /\ orders' = [orders EXCEPT ![req[r].order] =
                  MarkPaidByOwner(@, req[r].loaded, req[r].gw)]
  /\ products' = [p \in Products |->
                    IF \E i \in DOMAIN orders[req[r].order].items :
                         orders[req[r].order].items[i].product = p
                    THEN [products[p] EXCEPT !.stock = @ - 1]
                    ELSE products[p]]
  /\ Respond(r, 200)
  /\ UNCHANGED <<session, now, nOps, stockLog, shipCalls>>

PaySave(r) ==
  /\ At(r, "pay", "save")
  /\ orders' = [orders EXCEPT ![req[r].order] =
                  MarkPaidByOwner(@, req[r].loaded, req[r].gw)]
  /\ Respond(r, 200)
  /\ UNCHANGED <<session, now, products, nOps, stockLog, shipCalls>>

\* ----------------------------------------------------- POST /:id/cancel
CancelRejected(status) ==
  status \in {"processing", "shipped", "in_transit", "delivered", "cancelled"}

CancelLoad(r) ==
  /\ Free(r)
  /\ \E who \in Requesters, o \in OrderIds, reason \in {"none", "given"} :
       LET fresh == [IdleReq EXCEPT !.kind = "cancel", !.who = who,
                                    !.arg = reason]
       IN IF ~IsOwnerOrAdmin(who, orders[o])
          THEN Reject(r, fresh.kind, 403)
          ELSE IF CancelRejected(orders[o].status)
          THEN Reject(r, fresh.kind, 400)
          ELSE req' = [req EXCEPT ![r] =
                         [fresh EXCEPT !.order = o, !.pc = "save",
                                       !.loaded = orders[o].status]]
  /\ nOps' = nOps + 1
  /\ UNCHANGED <<session, now, orders, products, stockLog, shipCalls>>

MarkCancelled(ord, loaded, reason) ==
  [SaveStatus(ord, loaded, "cancelled") EXCEPT
     !.cancelledAt = TRUE,
     !.cancellationReason = IF reason # "none" THEN reason ELSE @]

CancelSave(r) ==
  /\ At(r, "cancel", "save")
  /\ orders' = [orders EXCEPT ![req[r].order] =
                  MarkCancelled(@, req[r].loaded, req[r].arg)]
  /\ Respond(r, 200)
  /\ UNCHANGED <<session, now, products, nOps, stockLog, shipCalls>>

\* -------------------------------------------- POST /:id/cancel-shipment
CancelShipmentLoad(r) ==
  /\ Free(r)
  /\ \E who \in Requesters, o \in OrderIds :
       LET fresh == [IdleReq EXCEPT !.kind = "cancelShipment", !.who = who]
       IN IF ~IsOwnerOrAdmin(who, orders[o])
          THEN Reject(r, fresh.kind, 403)
          ELSE IF orders[o].shipmentDetails.awbNumber = "none"
          THEN Reject(r, fresh.kind, 400)
          ELSE req' = [req EXCEPT ![r] =
                         [fresh EXCEPT !.order = o, !.pc = "cancelCall",
                                       !.loaded = orders[o].status]]
  /\ nOps' = nOps + 1
  /\ UNCHANGED <<session, now, orders, products, stockLog, shipCalls>>

\* shipyaariService.cancelShipment(awb, reason): {cancelled: true},
\* {cancelled: false} when the carrier refuses, or throws.
CancelShipmentCall(r) ==
  /\ At(r, "cancelShipment", "cancelCall")
  /\ \E outcome \in {"cancelled", "refused", "threw"} :
       IF outcome = "threw"
       THEN Respond(r, 500)
       ELSE req' = [req EXCEPT ![r].provider = outcome,
                               ![r].pc = "cancelUpdate"]
  /\ UNCHANGED <<session, now, orders, products, nOps, stockLog, shipCalls>>

MarkShipmentCancelled(ord, outcome) ==
  [ord EXCEPT !.shipmentDetails.isCancelled =
                 IF outcome = "cancelled" THEN "true" ELSE "false",
              !.shipmentDetails.shipmentStatus = "cancelled",
              !.status = "cancelled"]

CancelShipmentUpdate(r) ==
  /\ At(r, "cancelShipment", "cancelUpdate")
  /\ orders' = [orders EXCEPT ![req[r].order] =
                  MarkShipmentCancelled(@, req[r].provider)]
  /\ Respond(r, 200)
  /\ UNCHANGED <<session, now, products, nOps, stockLog, shipCalls>>

\* ----------------------------------------------- PATCH /:id/status (admin)
AdminStatusLoad(r) ==
  /\ Free(r)
  /\ \E who \in {"owner", "admin"}, o \in OrderIds,
        status \in OrderStatuses \cup {"refunded"} :
       LET fresh == [IdleReq EXCEPT !.kind = "adminStatus", !.who = who,
                                    !.arg = status]
       IN IF who # "admin"
          THEN Reject(r, fresh.kind, 403)
          ELSE IF status \notin OrderStatuses
          THEN Reject(r, fresh.kind, 400)
          ELSE req' = [req EXCEPT ![r] =
                         [fresh EXCEPT !.order = o, !.pc = "save",
                                       !.loaded = orders[o].status]]
  /\ nOps' = nOps + 1
  /\ UNCHANGED <<session, now, orders, products, stockLog, shipCalls>>

MarkStatus(ord, loaded, status) ==
  [SaveStatus(ord, loaded, status) EXCEPT
     !.shippedAt = IF status = "shipped" THEN TRUE ELSE @,
     !.deliveredAt = IF status = "delivered" THEN TRUE ELSE @]

AdminStatusSave(r) ==
  /\ At(r, "adminStatus", "save")
  /\ orders' = [orders EXCEPT ![req[r].order] =
                  MarkStatus(@, req[r].loaded, req[r].arg)]
  /\ Respond(r, 200)
  /\ UNCHANGED <<session, now, products, nOps, stockLog, shipCalls>>

\* --------------------------------------------------- creating an order
\* new Order({...}) / Order.create({...}): the document before it is saved.
NewOrderDoc(who, items, shippingPrice, taxPrice) ==
  [NewOrder EXCEPT
     !.orderNumber = 0,
     !.user = who,
     !.items = items,
     !.itemsPrice = ItemsPrice(items),
     !.shippingPrice = shippingPrice,
     !.taxPrice = taxPrice,
     !.totalPrice = TotalPrice(ItemsPrice(items), shippingPrice, taxPrice),
     !.razorpayDetails.razorpayOrderId = "none",
     !.razorpayDetails.paymentStatus = "none"]

\* A creation is accepted while the store has an id left for it.
RoomForOrder ==
  Cardinality({q \in Slots : req[q].kind \in {"initiate", "create"}
                             /\ req[q].pc \in {"count", "insert"}})
    < Cardinality(AllOrderIds \ OrderIds)

\* if (!prod) return res.status(404): every product of the cart is among
\* the documents Product.find returned.
ProductsFound(cart, productMap) ==
  \A i \in DOMAIN cart : ~productMap[cart[i].product].deleted

\* POST /payment/initiate: free shipping, GST from the products.
InitiateReceive(r) ==
  /\ Free(r)
  /\ RoomForOrder
  /\ \E who \in {"owner"}, cart \in Carts :
       LET items == NormItems(cart, products)
       IN IF ~ProductsFound(cart, products)
          THEN Reject(r, "initiate", 404)
          ELSE req' = [req EXCEPT ![r] =
                         [IdleReq EXCEPT !.kind = "initiate", !.who = who,
                                         !.pc = "count",
                                         !.doc = NewOrderDoc(who, items, 0,
                                                             GstOf(items))]]
  /\ nOps' = nOps + 1
  /\ UNCHANGED <<session, now, orders, products, stockLog, shipCalls>>

\* The shippingPrice and taxPrice a client may send to POST /.
ClientCharges == {<<0, 0>>, <<40, 25>>}

\* let calculatedTaxPrice = Number(taxPrice || 0): from the products if 0.
CalculatedTaxPrice(taxPrice, items) ==
  IF taxPrice = 0 THEN GstOf(items) ELSE taxPrice

\* POST /: shippingPrice and taxPrice come from the request.
CreateReceive(r) ==
  /\ Free(r)
  /\ RoomForOrder
  /\ \E who \in {"owner"}, cart \in Carts, charges \in ClientCharges :
       LET items == NormItems(cart, products)
       IN IF ~ProductsFound(cart, products)
          THEN Reject(r, "create", 404)
          ELSE req' = [req EXCEPT ![r] =
                         [IdleReq EXCEPT !.kind = "create", !.who = who,
                                         !.pc = "count",
                                         !.doc = NewOrderDoc(
                                                   who, items, charges[1],
                                                   CalculatedTaxPrice(
                                                     charges[2], items))]]
  /\ nOps' = nOps + 1
  /\ UNCHANGED <<session, now, orders, products, stockLog, shipCalls>>

\* OrderSchema.pre('save'): orderNumber from countDocuments() + 1.
SaveCount(r) ==
  /\ req[r].kind \in {"initiate", "create"}
  /\ req[r].pc = "count"
  /\ req' = [req EXCEPT ![r].doc.orderNumber = Cardinality(OrderIds) + 1,
                        ![r].pc = "insert"]
  /\ UNCHANGED <<session, now, orders, products, nOps, stockLog, shipCalls>>

\* The insert of the save: the unique index on orderNumber rejects a number
\* already taken, which the route's catch answers with 500.
SaveInsert(r) ==
  /\ req[r].kind \in {"initiate", "create"}
  /\ req[r].pc = "insert"
  /\ IF \E o \in OrderIds : orders[o].orderNumber = req[r].doc.orderNumber
     THEN /\ Respond(r, 500)
          /\ UNCHANGED orders
     ELSE LET id == CHOOSE o \in AllOrderIds \ OrderIds : TRUE
          IN /\ orders' = (id :> req[r].doc) @@ orders
             /\ IF req[r].kind = "create"
                THEN Respond(r, 201)
                ELSE req' = [req EXCEPT ![r].order = id, ![r].doc = "none",
                                        ![r].pc = "gateway"]
  /\ UNCHANGED <<session, now, products, nOps, stockLog, shipCalls>>

\* razorpay.orders.create({...}): returns the gateway's order or throws.
InitiateGateway(r) ==
  /\ At(r, "initiate", "gateway")
  /\ \E outcome \in {"created", "threw"} :
       IF outcome = "threw"
       THEN Respond(r, 500)
       ELSE req' = [req EXCEPT ![r].gw = "rzpX", ![r].pc = "saveDetails"]
  /\ UNCHANGED <<session, now, orders, products, nOps, stockLog, shipCalls>>

\* order.razorpayDetails = { razorpayOrderId, paymentStatus: 'pending' }
SetPaymentFacts(ord, gw) ==
  [ord EXCEPT !.razorpayDetails =
                 [razorpayOrderId |-> gw, razorpayPaymentId |-> "none",
                  razorpaySignature |-> "none", paymentMethod |-> "none",
                  paymentStatus |-> "pending"]]

InitiateSaveDetails(r) ==
  /\ At(r, "initiate", "saveDetails")
  /\ orders' = [orders EXCEPT ![req[r].order] = SetPaymentFacts(@, req[r].gw)]
  /\ Respond(r, 200)
  /\ UNCHANGED <<session, now, products, nOps, stockLog, shipCalls>>

\* ------------------------------------------------ POST /:id/ship (admin)
\* order.shipmentDetails = {...}: the whole sub-document, from the request.
ShipmentFromRequest(awbNumber, shipmentStatus) ==
  [shipmentStatus |-> IF shipmentStatus = "none" THEN "processing"
                      ELSE shipmentStatus,
   shipyaariOrderId |-> "none", awbNumber |-> awbNumber,
   courierPartner |-> "none", trackingUrl |-> "none",
   shipmentError |-> "none", isCancelled |-> "false",
   lastTrackingUpdate |-> "none"]

AdminShipLoad(r) ==
  /\ Free(r)
  /\ \E who \in {"owner", "admin"}, o \in OrderIds,
        awbNumber \in {"none", "awbA"}, shipmentStatus \in {"none", "shipped"} :
       LET fresh == [IdleReq EXCEPT !.kind = "ship", !.who = who]
           details == ShipmentFromRequest(awbNumber, shipmentStatus)
       IN IF who # "admin"
          THEN Reject(r, fresh.kind, 403)
          ELSE req' = [req EXCEPT ![r] =
                         [fresh EXCEPT
                            !.order = o, !.pc = "save", !.doc = details,
                            !.loaded =
                               IF /\ details.shipmentStatus
                                       \in {"shipped", "in_transit"}
                                  /\ ~orders[o].shippedAt
                               THEN "shippedAt"
                               ELSE "none"]]
  /\ nOps' = nOps + 1
  /\ UNCHANGED <<session, now, orders, products, stockLog, shipCalls>>

SetShipment(ord, details, modified) ==
  [ord EXCEPT !.shipmentDetails = details,
              !.shippedAt = IF modified = "shippedAt" THEN TRUE ELSE @]

AdminShipSave(r) ==
  /\ At(r, "ship", "save")
  /\ orders' = [orders EXCEPT ![req[r].order] =
                  SetShipment(@, req[r].doc, req[r].loaded)]
  /\ Respond(r, 200)
  /\ UNCHANGED <<session, now, products, nOps, stockLog, shipCalls>>

\* ------------------------------------------------- GET /:id/tracking
TrackingLoad(r) ==
  /\ Free(r)
  /\ \E who \in Requesters, o \in OrderIds :
       LET fresh == [IdleReq EXCEPT !.kind = "tracking", !.who = who]
       IN IF ~IsOwnerOrAdmin(who, orders[o])
          THEN Reject(r, fresh.kind, 403)
          ELSE IF orders[o].shipmentDetails.awbNumber = "none"
          THEN Reject(r, fresh.kind, 200)
          ELSE req' = [req EXCEPT ![r] =
                         [fresh EXCEPT !.order = o, !.pc = "trackCall"]]
  /\ nOps' = nOps + 1
  /\ UNCHANGED <<session, now, orders, products, stockLog, shipCalls>>

\* shipyaariService.trackShipment(awb): the tracking data, or throws.
TrackingCall(r) ==
  /\ At(r, "tracking", "trackCall")
  /\ \E outcome \in {"in_transit", "threw"} :
       IF outcome = "threw"
       THEN Respond(r, 500)
       ELSE req' = [req EXCEPT ![r].provider = outcome,
                               ![r].pc = "trackUpdate"]
  /\ UNCHANGED <<session, now, orders, products, nOps, stockLog, shipCalls>>

SetTracking(ord, trackingStatus) ==
  [ord EXCEPT !.shipmentDetails.lastTrackingUpdate = trackingStatus]

TrackingUpdate(r) ==
  /\ At(r, "tracking", "trackUpdate")
  /\ orders' = [orders EXCEPT ![req[r].order] =
                  SetTracking(@, req[r].provider)]
  /\ Respond(r, 200)
  /\ UNCHANGED <<session, now, products, nOps, stockLog, shipCalls>>

\* ----------------------------------- ShipyaariService.authenticate()
\* The validity the service assumes for a token (23 hours), in clock ticks.
TokenValidity == 1

NoToken == 0

\* The operations of the service that begin with `await this.authenticate()`.
ProviderOperations == {"createShipment", "trackShipment", "cancelShipment"}

\* this.token && this.tokenExpiry && Date.now() < this.tokenExpiry
TokenValid(s, t) == s.token # NoToken /\ t < s.tokenExpiry

\* A provider operation starts: authenticate() returns the cached token at
\* once, otherwise it calls /seller/signIn.  The n-th sign-in call is
\* answered with token n.
Authenticate(r) ==
  /\ Free(r)
  /\ \E op \in ProviderOperations :
       LET fresh == [IdleReq EXCEPT !.kind = "provider", !.arg = op]
       IN IF TokenValid(session, now)
          THEN /\ req' = [req EXCEPT ![r] =
                            [fresh EXCEPT !.pc = "request",
                                          !.idx = session.token]]
               /\ UNCHANGED session
          ELSE /\ req' = [req EXCEPT ![r] =
                            [fresh EXCEPT !.pc = "signIn",
                                          !.idx = session.signIns + 1]]
               /\ session' = [session EXCEPT !.signIns = @ + 1]
  /\ nOps' = nOps + 1
  /\ UNCHANGED <<now, orders, products, stockLog, shipCalls>>

\* this.token = response.data.data[0].token;
\* this.tokenExpiry = Date.now() + 23h
StoreToken(s, token, t) ==
  [s EXCEPT !.token = token, !.tokenExpiry = t + TokenValidity]

\* The answer of /seller/signIn: success, success: false, or a failed call;
\* the last two make authenticate, and the operation, throw.
SignIn(r) ==
  /\ At(r, "provider", "signIn")
  /\ \E outcome \in {"success", "refused", "threw"} :
       IF outcome = "success"
       THEN /\ session' = StoreToken(session, req[r].idx, now)
            /\ req' = [req EXCEPT ![r].pc = "request"]
       ELSE /\ Respond(r, 500)
            /\ UNCHANGED session
  /\ UNCHANGED <<now, orders, products, nOps, stockLog, shipCalls>>

\* The operation's own call, with the token in its Authorization header.
ProviderRequest(r) ==
  /\ At(r, "provider", "request")
  /\ Respond(r, 200)
  /\ UNCHANGED <<now, orders, products, nOps, stockLog, shipCalls, session>>

ProviderStep(r) ==
  \/ Authenticate(r)
  \/ SignIn(r)
  \/ ProviderRequest(r)

\* ------------------------------------- admin: PATCH / DELETE .../products/:id
NoField == -1

\* The bodies an admin may send: a restock, a new price, and a body without
\* any of the allowed fields.
ProductBodies ==
  {[stock |-> MaxStock, status |-> "none", price |-> NoField],
   [stock |-> NoField, status |-> "none", price |-> 600],
   [stock |-> NoField, status |-> "none", price |-> NoField]}

\* Object.keys(updates).length === 0
NoUpdates(body) ==
  body.stock = NoField /\ body.status = "none" /\ body.price = NoField

\* Product.findOneAndUpdate({...}, updates): sets the fields the body named.
ApplyUpdates(prod, updates) ==
  [prod EXCEPT
     !.stock = IF updates.stock = NoField THEN @ ELSE updates.stock,
     !.status = IF updates.status = "none" THEN @ ELSE updates.status,
     !.price = IF updates.price = NoField THEN @ ELSE updates.price]

\* requireRoles('admin'), then the lookups up to the existing product.
AdminProductLoad(r) ==
  /\ Free(r)
  /\ \E who \in {"owner", "admin"}, p \in Products, body \in ProductBodies :
       LET fresh == [IdleReq EXCEPT !.kind = "product", !.who = who]
       IN IF who # "admin"
          THEN Reject(r, fresh.kind, 403)
          ELSE IF products[p].deleted
          THEN Reject(r, fresh.kind, 404)
          ELSE IF NoUpdates(body)
          THEN Reject(r, fresh.kind, 400)
          ELSE req' = [req EXCEPT ![r] =
                         [fresh EXCEPT !.arg = p, !.doc = body,
                                       !.pc = "update"]]
  /\ nOps' = nOps + 1
  /\ UNCHANGED <<session, now, orders, products, stockLog, shipCalls>>

AdminProductUpdate(r) ==
  /\ At(r, "product", "update")
  /\ LET p == req[r].arg
     IN products' = IF products[p].deleted
                    THEN products
                    ELSE [products EXCEPT ![p] = ApplyUpdates(@, req[r].doc)]
  /\ Respond(r, 200)
  /\ UNCHANGED <<session, now, orders, nOps, stockLog, shipCalls>>

AdminDeleteLoad(r) ==
  /\ Free(r)
  /\ \E who \in {"owner", "admin"}, p \in Products :
       LET fresh == [IdleReq EXCEPT !.kind = "productDelete", !.who = who]
       IN IF who # "admin"
          THEN Reject(r, fresh.kind, 403)
          ELSE IF products[p].deleted
          THEN Reject(r, fresh.kind, 404)
          ELSE req' = [req EXCEPT ![r] =
                         [fresh EXCEPT !.arg = p, !.pc = "deleteOne"]]
  /\ nOps' = nOps + 1
  /\ UNCHANGED <<session, now, orders, products, stockLog, shipCalls>>

\* Product.deleteOne({ _id: id })
AdminDeleteOne(r) ==
  /\ At(r, "productDelete", "deleteOne")
  /\ products' = [products EXCEPT ![req[r].arg].deleted = TRUE]
  /\ Respond(r, 204)
  /\ UNCHANGED <<session, now, orders, nOps, stockLog, shipCalls>>

ProductStep(r) ==
  \/ AdminProductLoad(r)
  \/ AdminProductUpdate(r)
  \/ AdminDeleteLoad(r)
  \/ AdminDeleteOne(r)

RouteStep(r) ==
  \/ ConfirmReceive(r)
  \/ ConfirmUpdate(r)
  \/ PayLoad(r)
  \/ PaySave(r)
  \/ CancelLoad(r)
  \/ CancelSave(r)
  \/ CancelShipmentLoad(r)
  \/ CancelShipmentCall(r)
  \/ CancelShipmentUpdate(r)
  \/ AdminStatusLoad(r)
  \/ AdminStatusSave(r)
  \/ InitiateReceive(r)
  \/ CreateReceive(r)
  \/ SaveCount(r)
  \/ SaveInsert(r)
  \/ InitiateGateway(r)
  \/ InitiateSaveDetails(r)
  \/ AdminShipLoad(r)
  \/ AdminShipSave(r)
  \/ TrackingLoad(r)
  \/ TrackingCall(r)
  \/ TrackingUpdate(r)

Next == \E r \in Slots : WebhookStep(r) \/ RouteStep(r)

Spec == Init /\ [][Next]_vars

\* The same steps from the store in which every product is fully stocked.
InitStocked ==
  /\ Init
  /\ \A p \in Products : products[p].stock = MaxStock

SpecOrders == InitStocked /\ [][Next]_vars

\* The webhook next to the admin's product edits.
NextInventory == \E r \in Slots : WebhookStep(r) \/ ProductStep(r)

SpecInventory == InitStocked /\ [][NextInventory]_vars

CreationStep(r) ==
  \/ InitiateReceive(r)
  \/ CreateReceive(r)
  \/ SaveCount(r)
  \/ SaveInsert(r)
  \/ InitiateGateway(r)
  \/ InitiateSaveDetails(r)

\* Checkout, the webhook and the admin's product edits.
NextCatalog ==
  \E r \in Slots : CreationStep(r) \/ WebhookStep(r) \/ ProductStep(r)

SpecCatalog == InitStocked /\ [][NextCatalog]_vars

\* The store before its first order, every product fully stocked.
InitEmpty ==
  /\ orders = [o \in {} |-> NewOrder]
  /\ products = [p \in Products |-> NewProduct(p, MaxStock)]
  /\ req = [r \in Slots |-> IdleReq]
  /\ nOps = 0
  /\ stockLog = [p \in Products |-> [ok |-> 0, rejected |-> 0]]
  /\ shipCalls = [o \in AllOrderIds |-> 0]
  /\ now = 0
  /\ session = NewSession

NextCheckout == \E r \in Slots : CreationStep(r)

SpecCheckout == InitEmpty /\ [][NextCheckout]_vars

\* The provider operations of the service, with the clock moving.
NextSession == (\E r \in Slots : ProviderStep(r)) \/ Tick

SpecSession == InitStocked /\ [][NextSession]_vars

\* ================================================================== claims
HistoryOf(o) == orders[o].statusHistory

EntriesWith(o, status) ==
  {i \in DOMAIN HistoryOf(o) : HistoryOf(o)[i].status = status}

QuantityOf(p) ==
  LET i == CHOOSE i \in DOMAIN OrderItems : OrderItems[i].product = p
  IN OrderItems[i].quantity

PaidOrLater == {"paid", "processing", "shipped", "in_transit", "delivered"}

Acts(r) == req'[r] # req[r]

\* C1 - Idempotent capture: however often the verified payment.captured
\* event of an order is delivered, the order has at most one 'paid'
\* statusHistory entry and each of its items is decremented at most once.
C1_IdempotentCapture ==
  \A o \in OrderIds :
    /\ Cardinality(EntriesWith(o, "paid")) <= 1
    /\ \A i \in DOMAIN orders[o].items :
         stockLog[orders[o].items[i].product].ok <= 1

\* C2 - No oversell: stock is never negative, every unit sold was taken by a
\* successful conditional update, and when a product that started with
\* stock 1 has seen two quantity-1 decrements exactly one succeeded, the
\* other was rejected and the stock is 0.
C2_NoOversell ==
  \A p \in Products :
    /\ products[p].stock >= 0
    /\ products[p].totalSales = stockLog[p].ok * QuantityOf(p)
    /\ ( /\ QuantityOf(p) = 1
         /\ products[p].stock + products[p].totalSales = 1
         /\ stockLog[p].ok + stockLog[p].rejected = 2 )
       => /\ stockLog[p].ok = 1
          /\ stockLog[p].rejected = 1
          /\ products[p].stock = 0

C2_Witness ==
  /\ products["p1"].stock = 0
  /\ stockLog["p1"] = [ok |-> 1, rejected |-> 1]

\* C3 - Signature gate: a webhook delivery whose signature header is missing
\* or is not the HMAC, under the webhook secret, of the body as the route
\* reads it (the re-serialised JSON) is answered 400 and leaves every order
\* and every product as it was, for every event type and payload.
C3_SignatureGate ==
  [][\A r \in Slots :
       ( /\ At(r, "webhook", "route")
         /\ Acts(r)
         /\ \/ req[r].sig = NoSig
            \/ req[r].sig #
                 Hmac(WebhookSecret, BodyOf(req[r].event, req[r].gw, req[r].form)) )
       => /\ req'[r].pc = "done"
          /\ req'[r].resp = 400
          /\ orders' = orders
          /\ products' = products]_vars

C3_Witness ==
  \E r \in Slots : req[r] = Answered("webhook", 400)

\* C4 - Duplicate-event tolerance: when the payment-captured handler reaches
\* an order whose status is already paid, processing, shipped, in_transit or
\* delivered, it leaves the order unchanged, and the shipment provider is
\* asked to create a shipment at most once per order.
C4_DuplicateCaptureNoOp ==
  /\ [][\A r \in Slots :
          ( /\ At(r, "webhook", "markPaid")
            /\ Acts(r)
            /\ orders[req[r].order].status \in PaidOrLater )
          => orders' = orders]_vars
  /\ [](\A o \in OrderIds : shipCalls[o] <= 1)

\* C5 - Cancellation guard: a cancel request (POST /:id/cancel or
\* POST /:id/cancel-shipment) that found the order shipped, in_transit or
\* delivered never changes the order and is not answered with success.
C5_CancellationGuard ==
  [][\A r \in Slots :
       ( /\ req[r].kind \in {"cancel", "cancelShipment"}
         /\ req[r].loaded \in {"shipped", "in_transit", "delivered"}
         /\ Acts(r) )
       => /\ orders' = orders
          /\ req'[r].resp # 200]_vars

\* C6 - After every step that changes an order's status, the last
\* statusHistory entry carries the order's new status.
C6_LastEntryIsStatus ==
  [][\A o \in OrderIds :
       orders'[o].status # orders[o].status
       => /\ Len(orders'[o].statusHistory) > 0
          /\ orders'[o].statusHistory[Len(orders'[o].statusHistory)].status
               = orders'[o].status]_vars

\* C7 - Every change of an order's status appends exactly one statusHistory
\* entry, and an entry is appended only together with a status change.
C7_OneEntryPerTransition ==
  [][\A o \in OrderIds :
       /\ orders'[o].status # orders[o].status
          => /\ Len(orders'[o].statusHistory) = Len(orders[o].statusHistory) + 1
             /\ SubSeq(orders'[o].statusHistory, 1, Len(orders[o].statusHistory))
                  = orders[o].statusHistory
       /\ orders'[o].statusHistory # orders[o].statusHistory
          => orders'[o].status # orders[o].status]_vars

\* C8 - Terminal states: once an order is delivered or cancelled no step
\* changes its status.
C8_TerminalStates ==
  [][\A o \in OrderIds :
       orders[o].status \in {"delivered", "cancelled"}
       => orders'[o].status = orders[o].status]_vars

\* C9 - A cancel request on an order that is pending, confirmed, paid or
\* processing is not refused for the order's status, and its save sets the
\* status to cancelled and answers with success.
C9_CancelSucceeds ==
  [][\A r \in Slots :
       /\ ( /\ Vacant(r)
            /\ Acts(r)
            /\ req'[r].kind = "cancel"
            /\ \A o \in OrderIds :
                 orders[o].status \in {"pending", "confirmed", "paid", "processing"} )
          => req'[r].resp # 400
       /\ ( At(r, "cancel", "save") /\ Acts(r) )
          => /\ orders'[req[r].order].status = "cancelled"
             /\ req'[r].resp = 200]_vars

\* C10 - A verified payment-captured event: the handler's first write sets
\* status paid, paidAt and paymentStatus captured; each item whose stock
\* suffices is decremented by its quantity; the provider is asked for a
\* shipment only after a paid and then a processing entry were recorded; and
\* when the handler finishes the order is neither pending nor paid, unless a
\* second capture handler stands between its own paid and processing writes.
CapturedBetweenWrites(q) ==
  /\ req[q].kind = "webhook"
  /\ req[q].event = "payment.captured"
  /\ req[q].pc \in {"stock", "flip", "setProcessing"}

CapturedStepOk(r) ==
  LET o == req[r].order
  IN /\ ( At(r, "webhook", "markPaid") /\ Acts(r) )
        => /\ orders'[o].status = "paid"
           /\ orders'[o].paidAt
           /\ orders'[o].razorpayDetails.paymentStatus = "captured"
     /\ ( At(r, "webhook", "stock") /\ Acts(r) )
        => LET item == orders[o].items[req[r].idx]
           IN products[item.product].stock >= item.quantity
              => products'[item.product].stock
                   = products[item.product].stock - item.quantity
     /\ ( At(r, "webhook", "createShipment") /\ Acts(r) )
        => \E i, j \in DOMAIN HistoryOf(o) :
             /\ i < j
             /\ HistoryOf(o)[i].status = "paid"
             /\ HistoryOf(o)[j].status = "processing"
     /\ ( /\ req[r].kind = "webhook"
          /\ req[r].pc \in {"setShipped", "setFailed"}
          /\ Acts(r) )
        => \/ orders'[o].status \notin {"pending", "paid"}
           \/ \E q \in Slots \ {r} : CapturedBetweenWrites(q)

C12_ShipmentSuccessShips ==
  [][\A r \in Slots :
       ( /\ At(r, "webhook", "setShipped")
         /\ Acts(r)
         /\ orders[req[r].order].status = "processing" )
       => LET o == req[r].order
              after == orders'[o]
          IN /\ after.status = "shipped"
             /\ after.shippedAt
             /\ after.shipmentDetails.awbNumber = ShipmentResult.awbNumber
             /\ after.shipmentDetails.courierPartner
                  = ShipmentResult.courierPartner
             /\ after.shipmentDetails.trackingUrl = ShipmentResult.trackingUrl
             /\ after.shipmentDetails.shipyaariOrderId
                  = ShipmentResult.shipyaariOrderId
             /\ after.statusHistory[Len(after.statusHistory)].status
                  = "shipped"]_vars

C12_Witness ==
  \E r \in Slots, o \in OrderIds :
    /\ req[r] = Answered("webhook", 200)
    /\ orders[o].status = "shipped"
    /\ orders[o].shippedAt
    /\ orders[o].shipmentDetails.awbNumber = "awb1"
    /\ orders[o].shipmentDetails.trackingUrl = "label1"
    /\ shipCalls[o] = 1
    /\ Cardinality(EntriesWith(o, "processing")) = 1

\* C13 - Once the signature of a webhook delivery has been validated, the
\* route answers 200 whatever the event type and the payload: unknown
\* events, unknown orders, payloads with missing fields, failing handlers.
C13_AlwaysSuccess ==
  [][\A r \in Slots :
       ( /\ req[r].kind = "webhook"
         /\ Acts(r)
         /\ req'[r].pc = "done"
         /\ ~ ( /\ req[r].pc = "route"
                /\ \/ req[r].sig = NoSig
                   \/ SignatureMismatch(
                        req[r].sig,
                        BodyOf(req[r].event, req[r].gw, req[r].form)) ) )
       => req'[r].resp = 200]_vars

\* C14 - The payment-failed event cancels the order only when the order is
\* pending; an order in any other status keeps its status.
C14_FailedOnlyCancelsPending ==
  [][\A r \in Slots :
       ( At(r, "webhook", "markCancelled") /\ Acts(r) )
       => LET o == req[r].order
          IN /\ orders[o].status = "pending"
                => orders'[o].status = "cancelled"
             /\ orders[o].status # "pending"
                => orders'[o].status = orders[o].status]_vars

\* C15 - The payment-authorized event leaves the order's status unchanged
\* and changes razorpayDetails only: no other field of the order,
\* statusHistory included, and no product is changed.
C15_AuthorizedOnlyPaymentFacts ==
  [][\A r \in Slots :
       ( At(r, "webhook", "markAuthorized") /\ Acts(r) )
       => LET o == req[r].order
          IN /\ orders'[o] =
                  [orders[o] EXCEPT !.razorpayDetails =
                                       orders'[o].razorpayDetails]
             /\ products' = products]_vars

\* C16 - statusHistory is append-only: across every step, the history an
\* order had before the step is a prefix of the history it has after it.
C16_HistoryAppendOnly ==
  [][\A o \in OrderIds :
       LET before == orders[o].statusHistory
           after == orders'[o].statusHistory
       IN /\ Len(before) <= Len(after)
          /\ SubSeq(after, 1, Len(before)) = before]_vars

C16_Witness ==
  \E o \in OrderIds :
    /\ Len(orders[o].statusHistory) >= 3
    /\ orders[o].statusHistory[1].status = "paid"
    /\ orders[o].razorpayDetails.razorpaySignature = "unverified"

\* C17 - Under every interleaving of concurrent handlers, the timestamps of
\* an order's statusHistory entries are non-decreasing in the order of the
\* entries.
C17_MonotonicHistory ==
  \A o \in OrderIds :
    \A i, j \in DOMAIN orders[o].statusHistory :
      i < j => orders[o].statusHistory[i].timestamp
                 <= orders[o].statusHistory[j].timestamp

RECURSIVE LineTotal(_, _)
LineTotal(items, n) ==
  IF n = 0
  THEN 0
  ELSE items[n].price * items[n].quantity + LineTotal(items, n - 1)

PricesOf(ord) ==
  <<ord.itemsPrice, ord.shippingPrice, ord.taxPrice, ord.totalPrice>>

\* C18 - Every order in the store has totalPrice equal to the sum of price
\* times quantity over its items plus its shippingPrice plus its taxPrice,
\* from its creation on, and no step changes the itemsPrice, shippingPrice,
\* taxPrice or totalPrice of an order.
C18_TotalPriceFrozen ==
  /\ [](\A o \in OrderIds :
          orders[o].totalPrice
            = LineTotal(orders[o].items, Len(orders[o].items))
                + orders[o].shippingPrice + orders[o].taxPrice)
  /\ [][\A o \in OrderIds : PricesOf(orders'[o]) = PricesOf(orders[o])]_vars

C18_Witness ==
  /\ "o2" \in OrderIds
  /\ orders["o2"].shippingPrice = 40
  /\ orders["o2"].taxPrice = 25
  /\ orders["o2"].totalPrice = 250 + 40 + 25
  /\ orders["o2"].status = "cancelled"

\* C19 - An order has shipment details with an AWB only if its payment has
\* succeeded, and the shipment provider is asked to create a shipment at
\* most once per order.
C19_ShipmentOnlyPaidOnce ==
  \A o \in OrderIds :
    /\ orders[o].shipmentDetails.awbNumber # "none" => orders[o].paidAt
    /\ shipCalls[o] <= 1

\* C20 - When the conditional decrement of an item finds too little stock,
\* the item is skipped: no product and no order changes (the paid write
\* stands), the loop goes on to the next item, which is decremented when its
\* stock suffices, and after the last item the shipment processing starts.
C20_SkippedItem ==
  [][\A r \in Slots :
       ( At(r, "webhook", "stock") /\ Acts(r) )
       => LET o == req[r].order
              item == orders[o].items[req[r].idx]
              p == item.product
          IN /\ products[p].stock < item.quantity
                => /\ products' = products
                   /\ orders' = orders
                   /\ req[r].idx < Len(orders[o].items)
                      => /\ req'[r].pc = "stock"
                         /\ req'[r].idx = req[r].idx + 1
                   /\ req[r].idx = Len(orders[o].items)
                      => req'[r].pc = "setProcessing"
             /\ products[p].stock >= item.quantity
                => /\ products'[p].stock = products[p].stock - item.quantity
                   /\ products'[p].totalSales
                        = products[p].totalSales + item.quantity]_vars

C20_Witness ==
  \E o \in OrderIds :
    /\ stockLog["p1"] = [ok |-> 0, rejected |-> 1]
    /\ stockLog["p2"] = [ok |-> 1, rejected |-> 0]
    /\ products["p1"].totalSales = 0
    /\ products["p2"].totalSales = 2
    /\ orders[o].paidAt
    /\ orders[o].status \in {"processing", "shipped"}
    /\ shipCalls[o] = 1

\* C21 - Whenever the capture handler sets a product's status to
\* out_of_stock, the product's stock is 0 at that moment, whatever other
\* stock writers (another decrement, an admin restock) ran in between.
C21_FlipOnlyAtZero ==
  [][\A r \in Slots :
       ( At(r, "webhook", "flip") /\ Acts(r) )
       => \A p \in Products :
            ( /\ products'[p].status = "out_of_stock"
              /\ products[p].status # "out_of_stock" )
            => products'[p].stock = 0]_vars

OrderRouteKinds ==
  {"initiate", "create", "confirm", "pay", "cancel", "cancelShipment",
   "adminStatus", "ship"}

KindActing(r) == IF Vacant(r) THEN req'[r].kind ELSE req[r].kind

\* C22 - Every step of order creation, payment initiation, payment confirm,
\* owner pay, cancel, cancel-shipment, admin status set and admin ship leaves
\* every product as it was, and a product's stock goes down only in the
\* decrement step of a payment-captured handler.
C22_StockOnlyByCapture ==
  /\ [][\A r \in Slots :
          ( Acts(r) /\ KindActing(r) \in OrderRouteKinds )
          => products' = products]_vars
  /\ [][\A p \in Products :
          products'[p].stock < products[p].stock
          => \E r \in Slots :
               /\ At(r, "webhook", "stock")
               /\ req[r].event = "payment.captured"
               /\ Acts(r)]_vars

C22_Witness ==
  \E r \in Slots, o \in OrderIds :
    /\ req[r] = Answered("pay", 200)
    /\ orders[o].status = "paid"
    /\ orders[o].razorpayDetails.razorpaySignature = "unverified"
    /\ "o2" \in OrderIds
    /\ \A p \in Products : products[p] = NewProduct(p, MaxStock)

\* C23 - Order line items are a snapshot: no step changes the items of an
\* order in the store, an edit or deletion of a product leaves every order
\* as it was, and the payload sent to the shipment provider carries the
\* quantities and prices of the order's items, whatever the product
\* documents hold by then.
C23_ItemsSnapshot ==
  /\ [][\A o \in OrderIds : orders'[o].items = orders[o].items]_vars
  /\ [][\A r \in Slots :
          ( Acts(r) /\ KindActing(r) \in {"product", "productDelete"} )
          => orders' = orders]_vars
  /\ [][\A r \in Slots :
          ( At(r, "webhook", "createShipment") /\ Acts(r) )
          => LET items == orders[req[r].order].items
                 payload == req'[r].doc
             IN /\ DOMAIN payload = DOMAIN items
                /\ \A i \in DOMAIN items :
                     /\ payload[i].qty = items[i].quantity
                     /\ payload[i].unitPrice = items[i].price
                     /\ payload[i].totalPrice
                          = items[i].price * items[i].quantity]_vars

C23_Witness ==
  \E r \in Slots :
    /\ products["p1"].price = 600
    /\ At(r, "webhook", "setShipped")
    /\ orders[req[r].order].items[1].product = "p1"
    /\ orders[req[r].order].items[1].price = ProductPrice("p1")
    /\ req[r].doc[1].unitPrice = ProductPrice("p1")

\* C24 - Order numbers are assigned once and are unique and sequential: no
\* two orders share an orderNumber, the numbers of the orders in the store
\* are 1..n, the save of every creation that passed validation inserts its
\* order, and no later step changes the orderNumber of an order.
C24_OrderNumbers ==
  /\ [](\A o, q \in OrderIds :
          o # q => orders[o].orderNumber # orders[q].orderNumber)
  /\ []({orders[o].orderNumber : o \in OrderIds} = 1..Cardinality(OrderIds))
  /\ [][\A r \in Slots :
          ( /\ req[r].kind \in {"initiate", "create"}
            /\ req[r].pc = "insert"
            /\ Acts(r) )
          => /\ Cardinality(DOMAIN orders') = Cardinality(OrderIds) + 1
             /\ req'[r].resp # 500]_vars
  /\ [][\A o \in OrderIds :
          orders'[o].orderNumber = orders[o].orderNumber]_vars

\* C25 - An order's status becomes paid only in a step of a request whose
\* gateway signature was verified (a webhook past its route check, a payment
\* confirm past its check) or of an admin's status command.
C25_PaidNeedsSignature ==
  [][\A o \in OrderIds :
       ( orders'[o].status = "paid" /\ orders[o].status # "paid" )
       => \E r \in Slots :
            /\ Acts(r)
            /\ \/ req[r].kind = "webhook" /\ req[r].pc # "route"
               \/ req[r].kind = "confirm" /\ req[r].pc = "update"
               \/ req[r].kind = "adminStatus" /\ req[r].who = "admin"]_vars

\* C26 - A verified payment confirm, or an owner's pay, never moves an order
\* back: if the order is processing, shipped, in_transit, delivered or
\* cancelled when the request writes, its status is not paid afterwards.
C26_ConfirmNeverRegresses ==
  [][\A r \in Slots :
       ( /\ Acts(r)
         /\ At(r, "confirm", "update") \/ At(r, "pay", "save") )
       => \A o \in OrderIds :
            orders[o].status \in {"processing", "shipped", "in_transit",
                                  "delivered", "cancelled"}
            => orders'[o].status # "paid"]_vars

\* C27 - POST /:id/cancel-shipment sets status and shipmentStatus to
\* cancelled only when the provider reported cancelled = true; when the
\* provider refuses (cancelled = false) or the call fails, the order's
\* status and shipmentStatus stay as they were.
C27_CancelOnlyWhenProviderCancelled ==
  [][\A r \in Slots :
       ( req[r].kind = "cancelShipment" /\ Acts(r) )
       => LET o == req[r].order
          IN /\ At(r, "cancelShipment", "cancelCall") => orders' = orders
             /\ ( At(r, "cancelShipment", "cancelUpdate")
                  /\ req[r].provider = "cancelled" )
                => /\ orders'[o].status = "cancelled"
                   /\ orders'[o].shipmentDetails.shipmentStatus = "cancelled"
             /\ ( At(r, "cancelShipment", "cancelUpdate")
                  /\ req[r].provider # "cancelled" )
                => /\ orders'[o].status = orders[o].status
                   /\ orders'[o].shipmentDetails.shipmentStatus
                        = orders[o].shipmentDetails.shipmentStatus]_vars

\* C28 - Once an order's paymentStatus is captured, the write of a
\* payment-authorized event delivered later leaves it captured.
C28_CapturedStaysCaptured ==
  [][\A r \in Slots :
       ( /\ At(r, "webhook", "markAuthorized")
         /\ Acts(r)
         /\ orders[req[r].order].razorpayDetails.paymentStatus = "captured" )
       => orders'[req[r].order].razorpayDetails.paymentStatus
            = "captured"]_vars

\* C29 - Payment initiation is all-or-nothing: when razorpay.orders.create
\* fails, the order the request saved is no longer in the store when the
\* request is answered.
C29_InitiateAllOrNothing ==
  [][\A r \in Slots :
       ( /\ At(r, "initiate", "gateway")
         /\ Acts(r)
         /\ req'[r].pc = "done" )
       => req[r].order \notin DOMAIN orders']_vars

SignInsInFlight == {r \in Slots : At(r, "provider", "signIn")}

\* C30 - authenticate returns the cached token without a sign-in call
\* exactly when a token is cached and the clock is before its expiry; a
\* failed sign-in leaves token and expiry as they were; a successful one
\* stores its token with an expiry later than the clock; and when several
\* provider operations start with no valid token at most one sign-in call
\* is in flight.
C30_SessionRenewal ==
  /\ [][\A r \in Slots :
          ( Vacant(r) /\ Acts(r) /\ req'[r].kind = "provider" )
          => IF session.token # NoToken /\ now < session.tokenExpiry
             THEN /\ req'[r].pc = "request"
                  /\ req'[r].idx = session.token
                  /\ session' = session
             ELSE /\ req'[r].pc = "signIn"
                  /\ session'.signIns = session.signIns + 1]_vars
  /\ [][\A r \in Slots :
          ( At(r, "provider", "signIn") /\ Acts(r) )
          => \/ req'[r].resp = 500 /\ session' = session
             \/ /\ req'[r].pc = "request"
                /\ session'.token = req[r].idx
                /\ now < session'.tokenExpiry]_vars
  /\ [](Cardinality(SignInsInFlight) <= 1)

====
